---------------------------- MODULE Spec2Model ----------------------------
(***************************************************************************)
(* A model of the contract layer of src/neuralnet/contract.cpp: the        *)
(* contract envelope and its well-formedness and signature checks, the     *)
(* replay pool, and the dispatcher with its contract handlers.             *)
(*                                                                         *)
(* Cryptography is idealised: a hash is the data it was computed from      *)
(* (no collisions, never the zero value that marks an empty cache), and a  *)
(* signature names the private key that made it and the hash it covers     *)
(* (no forgery).  Strings are TLA+ strings; a key pair is named by the     *)
(* hex string of its public key.                                           *)
(***************************************************************************)
EXTENDS Integers, Sequences, FiniteSets, TLC

VARIABLES
    now,            \* GetAdjustedTime(): the adjusted clock
    m_replay_pool,  \* Dispatcher::m_replay_pool
    tracked,        \* history: the contracts TrackForReplay was called for
    appcache,       \* the AppCache sections behind AppCacheContractHandler
    msPoll,         \* the global current poll title
    beacons,        \* the beacon directory behind GetBeaconDirectory()
    whitelist,      \* the project whitelist behind GetWhitelist()
    calls,          \* history: handler calls made by the last dispatcher call
    ncalls,         \* history: the number of calls made (dispatcher calls;
                    \* under SpecHash, calls and assignments on ct)
    ct,             \* a Contract object (its fields and its hash cache)
    op,             \* history: the last operation
    arg,            \* history: the contract passed to the last operation
                    \* (under SpecHashPair: a second Contract object)
    ret             \* history: the value the last operation returned

vars == <<now, m_replay_pool, tracked, appcache, msPoll, beacons, whitelist,
          calls, ncalls, ct, op, arg, ret>>

---------------------------------------------------------------------------
(* Bounds of the model.                                                    *)

\* The clock runs from 1 to MaxTime.
MaxTime == 3
\* The number of clock ticks in the retention period the model is run with.
RetentionTicks == 1
\* The version ceiling the model is run with.
MaxVersion == 2
\* Nonces are drawn from 0 .. MaxNonce (a scaled 32-bit unsigned value).
MaxNonce == 2
\* The replay pool holds at most MaxPool entries, and at most MaxPool
\* different contracts are tracked.
MaxPool == 2
\* At most MaxCalls calls of the dispatcher's Apply and Revert are made
\* (under SpecHash: calls and assignments on the contract).
MaxCalls == 3
\* Transaction timestamps are drawn from 0 .. MaxTxTime.
MaxTxTime == 1

\* Contract::REPLAY_RETENTION_PERIOD and Contract::CURRENT_VERSION are
\* declared in neuralnet/contract.h; contract.cpp only uses them.
REPLAY_RETENTION_PERIOD == RetentionTicks
CURRENT_VERSION == MaxVersion

---------------------------------------------------------------------------
(* Variant codecs: Contract::Type and Contract::Action.                    *)
(* A variant is [value, other]: the enum value and the optional literal    *)
(* (m_other), the empty set for boost::none and {s} for the string s.      *)

ContractTypes ==
    {"BEACON", "POLL", "PROJECT", "PROTOCOL", "SCRAPER", "SUPERBLOCK",
     "VOTE", "UNKNOWN"}

ContractActions == {"ADD", "REMOVE", "UNKNOWN"}

\* Contract::Type::Type(ContractType), Contract::Action::Action(ContractAction)
Variant(value) == [value |-> value, other |-> {}]

\* Contract::Type::Type(std::string), Contract::Action::Action(std::string)
VariantOther(s) == [value |-> "UNKNOWN", other |-> {s}]

TypeParse(input) ==
    IF input = "" THEN Variant("UNKNOWN")
    ELSE IF input = "beacon" THEN Variant("BEACON")
    ELSE IF input = "vote" THEN Variant("VOTE")
    ELSE IF input = "poll" THEN Variant("POLL")
    ELSE IF input = "project" THEN Variant("PROJECT")
    ELSE IF input = "scraper" THEN Variant("SCRAPER")
    ELSE IF input = "protocol" THEN Variant("PROTOCOL")
    ELSE IF input = "superblock" THEN Variant("SUPERBLOCK")
    ELSE IF input = "projectmapping"
         THEN [value |-> "PROJECT", other |-> {"projectmapping"}]
    ELSE VariantOther(input)

\* Mutant of TypeToString: the type value is printed when there is one.
TypeToStringValueFirst(type) ==
    CASE type.value = "BEACON" -> "beacon"
      [] type.value = "POLL" -> "poll"
      [] type.value = "PROJECT" -> "project"
      [] type.value = "PROTOCOL" -> "protocol"
      [] type.value = "SCRAPER" -> "scraper"
      [] type.value = "SUPERBLOCK" -> "superblock"
      [] type.value = "VOTE" -> "vote"
      [] OTHER -> IF type.other # {} THEN CHOOSE s \in type.other : TRUE ELSE ""

TypeToString(type) ==
    IF type.other # {} THEN CHOOSE s \in type.other : TRUE
    ELSE CASE type.value = "BEACON" -> "beacon"
           [] type.value = "POLL" -> "poll"
           [] type.value = "PROJECT" -> "project"
           [] type.value = "PROTOCOL" -> "protocol"
           [] type.value = "SCRAPER" -> "scraper"
           [] type.value = "SUPERBLOCK" -> "superblock"
           [] type.value = "VOTE" -> "vote"
           [] OTHER -> ""

ActionParse(input) ==
    IF input = "" THEN Variant("UNKNOWN")
    ELSE IF input = "A" THEN Variant("ADD")
    ELSE IF input = "D" THEN Variant("REMOVE")
    ELSE VariantOther(input)

ActionToString(action) ==
    IF action.other # {} THEN CHOOSE s \in action.other : TRUE
    ELSE CASE action.value = "ADD" -> "A"
           [] action.value = "REMOVE" -> "D"
           [] OTHER -> ""

\* The strings given to Type::Parse: none, every known token, the legacy
\* alias, and tokens that are not known (one differs from a known token in
\* case only, one is an action token).
TypeTokens ==
    {"", "beacon", "vote", "poll", "project", "scraper", "protocol",
     "superblock", "projectmapping", "future", "Beacon", "A"}

\* The strings given to Action::Parse: none, the known tokens, and tokens that
\* are not known.
ActionTokens == {"", "A", "D", "X", "a", "beacon"}

\* The type variants of the model: every type value, the legacy alias and an
\* unrecognised token.
TypeVariants ==
    {Variant(t) : t \in ContractTypes}
    \cup {TypeParse("projectmapping"), TypeParse("future")}

\* The action variants of the model: every action value and an unrecognised
\* token.
ActionVariants == {Variant(a) : a \in ContractActions} \cup {ActionParse("X")}

---------------------------------------------------------------------------
(* Keys and signatures.                                                    *)

\* Contract::MasterPublicKey(), Contract::MessagePublicKey(): the two fixed
\* keys, named by the first bytes of their hex form.
MasterPublicKey == "049ac003"
MessagePublicKey == "044b2938"
\* Another valid key pair, of a user.
UserPublicKey == "04user"
\* CPubKey(): the empty key, which is not valid.
EmptyPublicKey == ""

\* A private key is named by the public key of its pair; CKey() without a
\* key set is named by the empty key, and cannot sign.
PrivateKeys == {MasterPublicKey, MessagePublicKey, UserPublicKey, EmptyPublicKey}

\* CKey::GetPubKey()
GetPubKey(private_key) == private_key

\* CPubKey::IsValid() behind Contract::PublicKey::Viable()
PublicKeyViable(public_key) == public_key # EmptyPublicKey

\* Contract::PublicKey::ToString(): HexStr of the raw key.
PublicKeyToString(public_key) == public_key

\* A signature: its length in bytes (m_bytes.size()), the private key that
\* made it ("" when no key did) and the hash it covers ({} when none).
MakeSignature(len, signer, hash) == [len |-> len, signer |-> signer, msg |-> {hash}]

\* Contract::Signature::Signature(): no bytes.
EmptySignature == [len |-> 0, signer |-> "", msg |-> {}]

\* Bytes that no key produced, len of them (a decoded <MS> element).
ForeignSignature(len) == [len |-> len, signer |-> "", msg |-> {}]

SignatureViable(signature) == signature.len >= 64 /\ signature.len <= 73

\* Contract::Signature::ToString(): nothing for no bytes, else the base64 of
\* the bytes.
SignatureToString(signature) ==
    IF signature.len = 0 THEN "" ELSE "b64" \o ToString(signature)

\* CKey::Verify(hash, signature) for the key pair named public_key.
KeyVerify(public_key, hash, signature) ==
    /\ signature.signer # ""
    /\ signature.signer = public_key
    /\ signature.msg = {hash}

---------------------------------------------------------------------------
(* The contract envelope.                                                  *)

\* Contract::Contract(version, type, action, key, value, signature,
\* public_key, nonce, timestamp, tx_timestamp); the hash cache starts empty.
Contract(version, type, action, key, value, sig, pub, nonce, ts, tx_ts) ==
    [m_version |-> version, m_type |-> type, m_action |-> action,
     m_key |-> key, m_value |-> value, m_signature |-> sig,
     m_public_key |-> pub, m_nonce |-> nonce,
     m_timestamp |-> ts, m_tx_timestamp |-> tx_ts,
     m_hash_cache |-> {}]

\* Contract::Contract()
DefaultContract ==
    Contract(CURRENT_VERSION, Variant("UNKNOWN"), Variant("UNKNOWN"), "", "",
             EmptySignature, EmptyPublicKey, 0, 0, 0)

\* Mutant of RequiresMasterKey: a project needs the master key to be removed
\* only.
RequiresMasterKeyProjectRemove(c) ==
    CASE c.m_type.value = "BEACON" -> c.m_action.value = "REMOVE"
      [] c.m_type.value = "POLL" -> c.m_action.value = "REMOVE"
      [] c.m_type.value = "PROJECT" -> c.m_action.value = "REMOVE"
      [] c.m_type.value = "PROTOCOL" -> TRUE
      [] c.m_type.value = "SCRAPER" -> TRUE
      [] c.m_type.value = "VOTE" -> c.m_action.value = "REMOVE"
      [] OTHER -> FALSE

\* Mutant of RequiresMasterKey: a vote needs the master key for any action.
RequiresMasterKeyVoteAlways(c) ==
    CASE c.m_type.value = "BEACON" -> c.m_action.value = "REMOVE"
      [] c.m_type.value = "POLL" -> c.m_action.value = "REMOVE"
      [] c.m_type.value = "PROJECT" -> TRUE
      [] c.m_type.value = "PROTOCOL" -> TRUE
      [] c.m_type.value = "SCRAPER" -> TRUE
      [] c.m_type.value = "VOTE" -> TRUE
      [] OTHER -> FALSE

RequiresMasterKey(c) ==
    CASE c.m_type.value = "BEACON" -> c.m_action.value = "REMOVE"
      [] c.m_type.value = "POLL" -> c.m_action.value = "REMOVE"
      [] c.m_type.value = "PROJECT" -> TRUE
      [] c.m_type.value = "PROTOCOL" -> TRUE
      [] c.m_type.value = "SCRAPER" -> TRUE
      [] c.m_type.value = "VOTE" -> c.m_action.value = "REMOVE"
      [] OTHER -> FALSE

RequiresMessageKey(c) ==
    CASE c.m_type.value = "BEACON" -> c.m_action.value = "ADD"
      [] c.m_type.value = "POLL" -> c.m_action.value = "ADD"
      [] c.m_type.value = "VOTE" -> c.m_action.value = "ADD"
      [] OTHER -> FALSE

RequiresSpecialKey(c) == RequiresMessageKey(c) \/ RequiresMasterKey(c)

\* Mutant of ResolvePublicKey: every special key is the message key.
ResolvePublicKeyMessageOnly(c) ==
    IF RequiresMessageKey(c) \/ RequiresMasterKey(c) THEN MessagePublicKey
    ELSE c.m_public_key

ResolvePublicKey(c) ==
    IF RequiresMessageKey(c) THEN MessagePublicKey
    ELSE IF RequiresMasterKey(c) THEN MasterPublicKey
    ELSE c.m_public_key

\* Mutant of WellFormed: the nonce is not tested.
WellFormedAnyNonce(c) ==
    /\ c.m_version > 0 /\ c.m_version <= CURRENT_VERSION
    /\ c.m_type.value # "UNKNOWN"
    /\ c.m_action.value # "UNKNOWN"
    /\ c.m_key # ""
    /\ c.m_value # ""
    /\ SignatureViable(c.m_signature)
    /\ (RequiresSpecialKey(c) \/ PublicKeyViable(c.m_public_key))
    /\ c.m_tx_timestamp > 0
    /\ (c.m_version = 1 \/ c.m_timestamp > 0)

WellFormed(c) ==
    /\ c.m_version > 0 /\ c.m_version <= CURRENT_VERSION
    /\ c.m_type.value # "UNKNOWN"
    /\ c.m_action.value # "UNKNOWN"
    /\ c.m_key # ""
    /\ c.m_value # ""
    /\ SignatureViable(c.m_signature)
    /\ (RequiresSpecialKey(c) \/ PublicKeyViable(c.m_public_key))
    /\ c.m_tx_timestamp > 0
    /\ (c.m_version = 1 \/ (c.m_timestamp > 0 /\ c.m_nonce > 0))

\* SerializeHash(*this): the hash of the serialized contract.  The
\* serialization is declared in neuralnet/contract.h: it covers the fields
\* of the structured payload; a signature is made over this hash and is not
\* part of it.
SerializeHash(c) ==
    [alg |-> "SerializeHash",
     data |-> <<c.m_version, c.m_type, c.m_action, c.m_key, c.m_value,
                c.m_nonce, c.m_timestamp, c.m_public_key>>]

\* Hash(b1, e1, b2, e2, b3, e3): the hash of the three ranges, one after
\* the other.
Hash3(s1, s2, s3) == [alg |-> "Hash", data |-> <<s1 \o s2 \o s3>>]

\* Mutant of GetHash: the hash of a version-1 contract covers the action too.
GetHashWithAction(c) ==
    IF c.m_hash_cache # {} THEN CHOOSE h \in c.m_hash_cache : TRUE
    ELSE IF c.m_version > 1 THEN SerializeHash(c)
    ELSE Hash3(TypeToString(c.m_type) \o ActionToString(c.m_action),
               c.m_key, c.m_value)

\* The value Contract::GetHash() returns.
GetHash(c) ==
    IF c.m_hash_cache # {} THEN CHOOSE h \in c.m_hash_cache : TRUE
    ELSE IF c.m_version > 1 THEN SerializeHash(c)
    ELSE Hash3(TypeToString(c.m_type), c.m_key, c.m_value)

\* Mutant of AfterGetHash: the hash is not cached.
AfterGetHashForgets(c) == c

\* The contract after Contract::GetHash(): the hash is cached.
AfterGetHash(c) == [c EXCEPT !.m_hash_cache = {GetHash(c)}]

\* CKey::SetPubKey fails for a key that is not valid.
VerifySignature(c) ==
    /\ PublicKeyViable(ResolvePublicKey(c))
    /\ KeyVerify(ResolvePublicKey(c), GetHash(c), c.m_signature)

Validate(c) == WellFormed(c) /\ VerifySignature(c)

\* The contract after Contract::Validate(): VerifySignature caches the hash
\* when WellFormed lets it run and the key can be set.
AfterValidate(c) ==
    IF WellFormed(c) /\ PublicKeyViable(ResolvePublicKey(c))
    THEN AfterGetHash(c) ELSE c

\* Mutant of Sign: a failed Sign clears the signature and the public key.
SignFailureClears(c, private_key, time, nonce, signed, len) ==
    LET invalidated == [c EXCEPT !.m_hash_cache = {}]
        stamped == IF c.m_version > 1
                   THEN [invalidated EXCEPT !.m_timestamp = time,
                                            !.m_nonce = nonce]
                   ELSE invalidated
        hashed == AfterGetHash(stamped)
        with_sig == [hashed EXCEPT !.m_signature =
                        MakeSignature(len, private_key, GetHash(hashed))]
    IN  IF ~signed
        THEN [ok |-> FALSE,
              contract |-> [hashed EXCEPT !.m_signature = EmptySignature,
                                          !.m_public_key = EmptyPublicKey]]
        ELSE [ok |-> TRUE,
              contract |-> IF ~RequiresSpecialKey(with_sig)
                           THEN [with_sig EXCEPT !.m_public_key =
                                    GetPubKey(private_key)]
                           ELSE with_sig]

\* Mutant of Sign: the signer's key is embedded whatever the contract needs.
SignAlwaysEmbedsKey(c, private_key, time, nonce, signed, len) ==
    LET invalidated == [c EXCEPT !.m_hash_cache = {}]
        stamped == IF c.m_version > 1
                   THEN [invalidated EXCEPT !.m_timestamp = time,
                                            !.m_nonce = nonce]
                   ELSE invalidated
        hashed == AfterGetHash(stamped)
        with_sig == [hashed EXCEPT !.m_signature =
                        MakeSignature(len, private_key, GetHash(hashed))]
    IN  IF ~signed THEN [ok |-> FALSE, contract |-> hashed]
        ELSE [ok |-> TRUE,
              contract |-> [with_sig EXCEPT !.m_public_key =
                               GetPubKey(private_key)]]

\* Contract::Sign(private_key), for the outcomes of its calls: time is what
\* GetAdjustedTime() returns, nonce what RAND_bytes leaves in m_nonce, and
\* signed whether CKey::Sign succeeds, then producing len bytes.
\* The result is [ok, contract]: the return value and the object afterwards.
Sign(c, private_key, time, nonce, signed, len) ==
    LET invalidated == [c EXCEPT !.m_hash_cache = {}]
        stamped == IF c.m_version > 1
                   THEN [invalidated EXCEPT !.m_timestamp = time,
                                            !.m_nonce = nonce]
                   ELSE invalidated
        hashed == AfterGetHash(stamped)
        with_sig == [hashed EXCEPT !.m_signature =
                        MakeSignature(len, private_key, GetHash(hashed))]
    IN  IF ~signed THEN [ok |-> FALSE, contract |-> hashed]
        ELSE [ok |-> TRUE,
              contract |-> IF ~RequiresSpecialKey(with_sig)
                           THEN [with_sig EXCEPT !.m_public_key =
                                    GetPubKey(private_key)]
                           ELSE with_sig]

\* The length of the DER signatures CKey::Sign produces: "typically 70 or
\* 71 bytes" (Contract::Signature::Viable).
DerLength == 71

\* The contracts that are built to be signed: of a valid version or of
\* version 0, of a type with each key requirement (PROJECT: the master key;
\* BEACON: the message key to add, the master key to remove; SUPERBLOCK and
\* an unrecognised type: the signer's own key), not yet signed, with the
\* time of the transaction that carries them, or none.
NewContracts ==
    {Contract(v, t, Variant(a), k, val, EmptySignature, EmptyPublicKey, 0, 0, tx) :
        v \in 0..CURRENT_VERSION,
        t \in {Variant("PROJECT"), Variant("BEACON"), Variant("SUPERBLOCK"),
                TypeParse("future")},
        a \in ContractActions, k \in {"", "key"}, val \in {"", "value"},
        tx \in 0..MaxTxTime}

\* Signature lengths at and around the limits of Signature::Viable.
SignatureLengths == {0, 63, 64, 73, 74}

\* Contract::Signature::Parse(input): no bytes for an empty input and for
\* one that is not base64, else the bytes decoded.
SignatureParse(input) ==
    IF input = "" THEN EmptySignature
    ELSE IF \E len \in SignatureLengths :
                input = SignatureToString(ForeignSignature(len))
    THEN CHOOSE sig \in {ForeignSignature(len) : len \in SignatureLengths} :
                input = SignatureToString(sig)
    ELSE EmptySignature

\* A legacy contract message: empty tells whether the string is empty, and
\* MT, MK, MV, MA, MS are what ExtractXML returns for each element ("" for
\* an element that is not there).
Message(mt, mk, mv, ma, ms) ==
    [empty |-> FALSE, MT |-> mt, MK |-> mk, MV |-> mv, MA |-> ma, MS |-> ms]

EmptyMessage ==
    [empty |-> TRUE, MT |-> "", MK |-> "", MV |-> "", MA |-> "", MS |-> ""]

\* Mutant of Parse: the contract carries an embedded public key.
ParseEmbedsKey(message, timestamp) ==
    IF message.empty THEN DefaultContract
    ELSE Contract(1, TypeParse(message.MT), ActionParse(message.MA),
                  message.MK, message.MV, SignatureParse(message.MS),
                  UserPublicKey, 0, 0, timestamp)

\* Mutant of Parse: the time of the transaction is taken as the signing time
\* too.
ParseSigningTime(message, timestamp) ==
    IF message.empty THEN DefaultContract
    ELSE Contract(1, TypeParse(message.MT), ActionParse(message.MA),
                  message.MK, message.MV, SignatureParse(message.MS),
                  EmptyPublicKey, 0, timestamp, timestamp)

\* Contract::Parse(message, timestamp)
Parse(message, timestamp) ==
    IF message.empty THEN DefaultContract
    ELSE Contract(1, TypeParse(message.MT), ActionParse(message.MA),
                  message.MK, message.MV, SignatureParse(message.MS),
                  EmptyPublicKey, 0, 0, timestamp)

\* The values of a signed 64-bit time: negative, zero, positive.
TimeValues == {-1, 0, 1}

\* Contract::ToString()
ContractToString(c) ==
    "<MT>" \o TypeToString(c.m_type) \o "</MT>"
    \o "<MK>" \o c.m_key \o "</MK>"
    \o "<MV>" \o c.m_value \o "</MV>"
    \o "<MA>" \o ActionToString(c.m_action) \o "</MA>"
    \o "<MPK>" \o PublicKeyToString(c.m_public_key) \o "</MPK>"
    \o "<MS>" \o SignatureToString(c.m_signature) \o "</MS>"

---------------------------------------------------------------------------
(* The replay guard of the dispatcher.                                     *)

\* Contract::ReplayPeriod() at clock value time
ReplayPeriod(time) == time - REPLAY_RETENTION_PERIOD

\* Mutant of ReplayPoolItem: the entry takes the time of the transaction
\* instead of the signing time.
ReplayPoolItemTxTime(c) ==
    [m_timestamp |-> c.m_tx_timestamp, m_hash |-> GetHash(c)]

\* Dispatcher::ReplayPoolItem for a contract
ReplayPoolItem(c) == [m_timestamp |-> c.m_timestamp, m_hash |-> GetHash(c)]

\* Mutant of ScanReplayPool: no entry is purged.
ScanReplayPoolKeepsAll(kept, rest, hash, valid_after_time) ==
    [ret |-> \A i \in 1..Len(rest) : rest[i].m_hash # hash,
     pool |-> kept \o rest]

\* Mutant of ScanReplayPool: an entry as old as the limit is purged too.
ScanReplayPoolPurgesAtLimit(kept, rest, hash, valid_after_time) ==
    IF \E i \in 1..Len(rest) : rest[i].m_hash = hash
    THEN [ret |-> FALSE, pool |-> kept \o rest]
    ELSE [ret |-> TRUE,
          pool |-> kept \o SelectSeq(rest, LAMBDA e :
                                        e.m_timestamp > valid_after_time)]

\* The loop of Dispatcher::CheckReplay from the iterator's position on: kept
\* are the entries the iterator has passed and left in the list, rest those
\* from the iterator to the end.  The result is [ret, pool].
RECURSIVE ScanReplayPool(_, _, _, _)
ScanReplayPool(kept, rest, hash, valid_after_time) ==
    IF rest = <<>> THEN [ret |-> TRUE, pool |-> kept]
    ELSE IF Head(rest).m_hash = hash
         THEN [ret |-> FALSE, pool |-> kept \o rest]
    ELSE IF Head(rest).m_timestamp < valid_after_time
         THEN ScanReplayPool(kept, Tail(rest), hash, valid_after_time)
    ELSE ScanReplayPool(Append(kept, Head(rest)), Tail(rest), hash,
                        valid_after_time)

\* Mutant of CheckReplayOn: a contract that is accepted is recorded.
CheckReplayOnRecording(pool, c, time) ==
    IF c.m_timestamp < ReplayPeriod(time)
    THEN [ret |-> FALSE, pool |-> pool]
    ELSE LET r == ScanReplayPool(<<>>, pool, GetHash(c), ReplayPeriod(time))
         IN  IF r.ret
             THEN [ret |-> TRUE, pool |-> Append(r.pool, ReplayPoolItem(c))]
             ELSE r

\* Mutant of CheckReplayOn: the age of the contract is not tested.
CheckReplayOnAnyAge(pool, c, time) ==
    ScanReplayPool(<<>>, pool, GetHash(c), ReplayPeriod(time))

\* Dispatcher::CheckReplay(contract) on the pool at clock value time: the
\* value returned and the pool afterwards.
CheckReplayOn(pool, c, time) ==
    IF c.m_timestamp < ReplayPeriod(time)
    THEN [ret |-> FALSE, pool |-> pool]
    ELSE ScanReplayPool(<<>>, pool, GetHash(c), ReplayPeriod(time))

\* Mutant of TrackForReplayOn: a hash is recorded once.
TrackForReplayOnOnce(pool, c) ==
    IF \E i \in 1..Len(pool) : pool[i].m_hash = GetHash(c) THEN pool
    ELSE Append(pool, ReplayPoolItem(c))

\* Dispatcher::TrackForReplay(contract): the pool afterwards.
TrackForReplayOn(pool, c) == Append(pool, ReplayPoolItem(c))

\* The contracts handed to the replay guard, as received in transactions
\* (the hash not yet computed): structured contracts of the current version
\* with their signing time and nonce, and a legacy contract, which has
\* neither.
NetworkContract(version, nonce, timestamp) ==
    Contract(version, Variant("PROTOCOL"), Variant("ADD"), "key", "value",
             EmptySignature, EmptyPublicKey, nonce, timestamp, 1)

\* The contracts Contract::Parse returns for the legacy messages of a
\* transaction of time 1: an empty message and a PROTOCOL contract.
ParsedContracts ==
    {Parse(m, 1) : m \in {EmptyMessage,
                          Message("protocol", "key", "value", "A", "")}}

ReplayContracts ==
    {NetworkContract(CURRENT_VERSION, n, t) : n \in {1, MaxNonce}, t \in 1..MaxTime}
    \cup {NetworkContract(1, 0, 0)}
    \cup ParsedContracts

---------------------------------------------------------------------------
(* The dispatcher and its contract handlers.                               *)
(* A world is the state the handlers act on, [appcache, msPoll, beacons,   *)
(* whitelist, calls]: calls is the list of handler calls made so far.      *)

\* StringToSection (appcache.h): the AppCache section of a type string.
StringToSection(s) ==
    CASE s = "poll" -> "Section::POLL"
      [] s = "protocol" -> "Section::PROTOCOL"
      [] s = "scraper" -> "Section::SCRAPER"
      [] s = "vote" -> "Section::VOTE"
      [] OTHER -> "Section::" \o s

\* WriteCache (appcache.h): set the entry of (section, key).
WriteCache(cache, section, key, value, timestamp) ==
    {e \in cache : ~(e.section = section /\ e.key = key)}
    \cup {[section |-> section, key |-> key, value |-> value,
           timestamp |-> timestamp]}

\* DeleteCache (appcache.h): remove the entry of (section, key).
DeleteCache(cache, section, key) ==
    {e \in cache : ~(e.section = section /\ e.key = key)}

\* The record of one handler call.
Call(handler, fn, c) == [handler |-> handler, fn |-> fn, contract |-> c]

Called(w, handler, fn, c) ==
    [w EXCEPT !.calls = Append(@, Call(handler, fn, c))]

\* Mutant of AppCacheAdd: the current poll is set for every type.
AppCacheAddAlwaysPoll(w, c) ==
    [w EXCEPT !.appcache =
                 WriteCache(@, StringToSection(TypeToString(c.m_type)),
                            c.m_key, c.m_value, c.m_tx_timestamp),
              !.msPoll = ContractToString(c)]

\* AppCacheContractHandler::Add
AppCacheAdd(w, c) ==
    LET written == [w EXCEPT !.appcache =
                       WriteCache(@, StringToSection(TypeToString(c.m_type)),
                                  c.m_key, c.m_value, c.m_tx_timestamp)]
    IN  IF c.m_type.value = "POLL"
        THEN [written EXCEPT !.msPoll = ContractToString(c)]
        ELSE written

\* AppCacheContractHandler::Delete
AppCacheDelete(w, c) ==
    [w EXCEPT !.appcache =
        DeleteCache(@, StringToSection(TypeToString(c.m_type)), c.m_key)]

\* The beacon directory's Add and Delete (neuralnet/beacon.h): a beacon is
\* registered under the contract's key, or removed.
BeaconAdd(w, c) == [w EXCEPT !.beacons = @ \cup {c.m_key}]
BeaconDelete(w, c) == [w EXCEPT !.beacons = @ \ {c.m_key}]

\* The whitelist's Add and Delete (neuralnet/project.h): a project is
\* listed under the contract's key, or removed.
WhitelistAdd(w, c) == [w EXCEPT !.whitelist = @ \cup {c.m_key}]
WhitelistDelete(w, c) == [w EXCEPT !.whitelist = @ \ {c.m_key}]

\* Mutant of GetHandler: PROJECT contracts still go to the legacy handler.
GetHandlerProjectLegacy(type) ==
    CASE type = "BEACON" -> "beacon"
      [] type = "POLL" -> "appcache"
      [] type = "PROJECT" -> "appcache"
      [] type = "PROTOCOL" -> "appcache"
      [] type = "SCRAPER" -> "appcache"
      [] type = "VOTE" -> "appcache"
      [] OTHER -> "unknown"

\* Mutant of GetHandler: the SUPERBLOCK case is not commented out.
GetHandlerSuperblock(type) ==
    CASE type = "BEACON" -> "beacon"
      [] type = "POLL" -> "appcache"
      [] type = "PROJECT" -> "whitelist"
      [] type = "PROTOCOL" -> "appcache"
      [] type = "SCRAPER" -> "appcache"
      [] type = "SUPERBLOCK" -> "appcache"
      [] type = "VOTE" -> "appcache"
      [] OTHER -> "unknown"

\* Dispatcher::GetHandler(type): the handler of a ContractType value.
GetHandler(type) ==
    CASE type = "BEACON" -> "beacon"
      [] type = "POLL" -> "appcache"
      [] type = "PROJECT" -> "whitelist"
      [] type = "PROTOCOL" -> "appcache"
      [] type = "SCRAPER" -> "appcache"
      [] type = "VOTE" -> "appcache"
      [] OTHER -> "unknown"

\* handler.Add(contract); UnknownContractHandler::Add only logs.
HandlerAdd(handler, w, c) ==
    LET w1 == Called(w, handler, "Add", c)
    IN  CASE handler = "appcache" -> AppCacheAdd(w1, c)
          [] handler = "beacon" -> BeaconAdd(w1, c)
          [] handler = "whitelist" -> WhitelistAdd(w1, c)
          [] OTHER -> w1

\* handler.Delete(contract); UnknownContractHandler::Delete only logs.
HandlerDelete(handler, w, c) ==
    LET w1 == Called(w, handler, "Delete", c)
    IN  CASE handler = "appcache" -> AppCacheDelete(w1, c)
          [] handler = "beacon" -> BeaconDelete(w1, c)
          [] handler = "whitelist" -> WhitelistDelete(w1, c)
          [] OTHER -> w1

\* Mutant of DefaultRevert: the action is repeated, not inverted.
DefaultRevertRepeats(handler, w, c) ==
    IF c.m_action.value = "ADD" THEN HandlerAdd(handler, w, c)
    ELSE IF c.m_action.value = "REMOVE" THEN HandlerDelete(handler, w, c)
    ELSE w

\* IContractHandler::Revert, the default of the handlers that do not
\* override it.
DefaultRevert(handler, w, c) ==
    IF c.m_action.value = "ADD" THEN HandlerDelete(handler, w, c)
    ELSE IF c.m_action.value = "REMOVE" THEN HandlerAdd(handler, w, c)
    ELSE w

\* handler.Revert(contract): UnknownContractHandler overrides it and only
\* logs; the other handlers are taken with the default.
HandlerRevert(handler, w, c) ==
    LET w1 == Called(w, handler, "Revert", c)
    IN  IF handler = "unknown" THEN w1 ELSE DefaultRevert(handler, w1, c)

\* Mutant of DispatcherApply: every action but ADD deletes.
DispatcherApplyElseDelete(w, c) ==
    IF c.m_action.value = "ADD"
    THEN HandlerAdd(GetHandler(c.m_type.value), w, c)
    ELSE HandlerDelete(GetHandler(c.m_type.value), w, c)

\* Dispatcher::Apply
DispatcherApply(w, c) ==
    IF c.m_action.value = "ADD"
    THEN HandlerAdd(GetHandler(c.m_type.value), w, c)
    ELSE IF c.m_action.value = "REMOVE"
    THEN HandlerDelete(GetHandler(c.m_type.value), w, c)
    ELSE w

\* Dispatcher::Revert
DispatcherRevert(w, c) == HandlerRevert(GetHandler(c.m_type.value), w, c)

\* The world of the current state, before a dispatcher call makes its
\* handler calls.
World ==
    [appcache |-> appcache, msPoll |-> msPoll, beacons |-> beacons,
     whitelist |-> whitelist, calls |-> <<>>]

\* The value of a contract and the time of the transaction that carried it.
DispatchValues == {<<"v1", 1>>, <<"v2", 2>>}

\* The contracts the dispatcher is given: of every type and action value,
\* of the legacy alias and of an unrecognised type.
DispatchContracts ==
    {Contract(1, t, a, "key", v[1], EmptySignature, EmptyPublicKey, 0, 0, v[2]) :
        t \in TypeVariants, a \in {Variant(x) : x \in ContractActions},
        v \in DispatchValues}

---------------------------------------------------------------------------
(* The state machine.                                                      *)

\* The state after construction: the clock at its first value, g_dispatcher
\* with an empty pool and empty handlers, and a default contract.
Init ==
    /\ now = 1
    /\ m_replay_pool = <<>>
    /\ tracked = {}
    /\ appcache = {}
    /\ msPoll = ""
    /\ beacons = {}
    /\ whitelist = {}
    /\ calls = <<>>
    /\ ncalls = 0
    /\ ct = DefaultContract
    /\ op = "Init"
    /\ arg = DefaultContract
    /\ ret = FALSE

replayVars == <<m_replay_pool, tracked>>
handlerVars == <<appcache, msPoll, beacons, whitelist, calls, ncalls>>

\* Time passes: the adjusted clock advances.
Tick ==
    /\ now < MaxTime
    /\ now' = now + 1
    /\ op' = "Tick"
    /\ arg' = DefaultContract
    /\ ret' = FALSE
    /\ UNCHANGED <<replayVars, handlerVars, ct>>

\* NN::CheckContractReplay(contract), on the dispatcher of the process (the
\* function names it gateway, the file defines g_dispatcher).
CheckReplay(c) ==
    LET r == CheckReplayOn(m_replay_pool, c, now)
    IN  /\ m_replay_pool' = r.pool
        /\ op' = "CheckReplay"
        /\ arg' = c
        /\ ret' = r.ret
        /\ UNCHANGED <<now, tracked, handlerVars, ct>>

\* NN::TrackContracts, for each contract of the vector
TrackForReplay(c) ==
    /\ Len(m_replay_pool) < MaxPool
    /\ Cardinality(tracked \cup {c}) <= MaxPool
    /\ m_replay_pool' = TrackForReplayOn(m_replay_pool, c)
    /\ tracked' = tracked \cup {c}
    /\ op' = "TrackForReplay"
    /\ arg' = c
    /\ ret' = FALSE
    /\ UNCHANGED <<now, handlerVars, ct>>

\* The handlers take the state of world w.
HandlersBecome(w) ==
    /\ appcache' = w.appcache
    /\ msPoll' = w.msPoll
    /\ beacons' = w.beacons
    /\ whitelist' = w.whitelist
    /\ calls' = w.calls

\* NN::ProcessContract(contract)
Apply(c) ==
    /\ ncalls < MaxCalls
    /\ ncalls' = ncalls + 1
    /\ HandlersBecome(DispatcherApply(World, c))
    /\ op' = "Apply"
    /\ arg' = c
    /\ ret' = FALSE
    /\ UNCHANGED <<now, replayVars, ct>>

\* NN::RevertContract(contract)
Revert(c) ==
    /\ ncalls < MaxCalls
    /\ ncalls' = ncalls + 1
    /\ HandlersBecome(DispatcherRevert(World, c))
    /\ op' = "Revert"
    /\ arg' = c
    /\ ret' = FALSE
    /\ UNCHANGED <<now, replayVars, ct>>

\* A contract object is built, once: Contract's constructor.
Construct(c) ==
    /\ op = "Init"
    /\ ct' = c
    /\ op' = "Construct"
    /\ arg' = DefaultContract
    /\ ret' = FALSE
    /\ UNCHANGED <<now, replayVars, handlerVars>>

\* ct.Sign(private_key) on a contract that is not signed yet: the nonce is
\* what RAND_bytes leaves in m_nonce, signed whether CKey::Sign succeeds,
\* which it cannot without a key.
SignContract(private_key, nonce, signed) ==
    LET r == Sign(ct, private_key, now, nonce, signed, DerLength)
    IN  /\ op \in {"Construct", "Sign"}
        /\ ct.m_signature = EmptySignature
        /\ signed => private_key # EmptyPublicKey
        /\ ct' = r.contract
        /\ op' = "Sign"
        /\ arg' = DefaultContract
        /\ ret' = r.ok
        /\ UNCHANGED <<now, replayVars, handlerVars>>

\* ct.Validate()
ValidateContract ==
    /\ op # "Init"
    /\ ct' = AfterValidate(ct)
    /\ op' = "Validate"
    /\ arg' = DefaultContract
    /\ ret' = Validate(ct)
    /\ UNCHANGED <<now, replayVars, handlerVars>>

\* ct.WellFormed()
CheckWellFormed ==
    /\ op \in {"Init", "Parse"}
    /\ op' = "WellFormed"
    /\ ret' = WellFormed(ct)
    /\ UNCHANGED <<now, replayVars, handlerVars, ct, arg>>

\* ct = Contract::Parse(message, timestamp), on the message and the time of
\* the transaction held in arg.
ParseMessage ==
    /\ op = "Message"
    /\ op' = "Parse"
    /\ ct' = Parse(arg.message, arg.timestamp)
    /\ ret' = FALSE
    /\ UNCHANGED <<now, replayVars, handlerVars, arg>>

\* ct.RequiresMasterKey(), ct.RequiresMessageKey(), ct.RequiresSpecialKey()
\* and ct.ResolvePublicKey(): the four values returned, in one record.
ResolveKeys ==
    /\ op = "Init"
    /\ op' = "ResolvePublicKey"
    /\ arg' = DefaultContract
    /\ ret' = [master |-> RequiresMasterKey(ct),
               message |-> RequiresMessageKey(ct),
               special |-> RequiresSpecialKey(ct),
               key |-> ResolvePublicKey(ct)]
    /\ UNCHANGED <<now, replayVars, handlerVars, ct>>

\* ct.GetHash() and arg.GetHash(), on two contract objects: the pair of the
\* values returned.
GetHashPair ==
    /\ op = "Init"
    /\ op' = "GetHash2"
    /\ ret' = <<GetHash(ct), GetHash(arg)>>
    /\ ct' = AfterGetHash(ct)
    /\ arg' = AfterGetHash(arg)
    /\ UNCHANGED <<now, replayVars, handlerVars>>

\* ct.GetHash()
GetHashContract ==
    /\ ncalls < MaxCalls
    /\ ncalls' = ncalls + 1
    /\ op' = "GetHash"
    /\ arg' = DefaultContract
    /\ ret' = GetHash(ct)
    /\ ct' = AfterGetHash(ct)
    /\ UNCHANGED <<now, replayVars, appcache, msPoll, beacons, whitelist, calls>>

\* The caller assigns the public fields m_key and m_action of ct.  No method
\* is called: ret keeps the last value returned, and op records that fields
\* were set, and whether since a GetHash() call.
SetField(key, action) ==
    /\ ncalls < MaxCalls
    /\ ncalls' = ncalls + 1
    /\ ct' = [ct EXCEPT !.m_key = key, !.m_action = action]
    /\ ct' # ct
    /\ op' = IF op \in {"GetHash", "GetHash, SetField"}
             THEN "GetHash, SetField" ELSE "SetField"
    /\ arg' = DefaultContract
    /\ ret' = ret
    /\ UNCHANGED <<now, replayVars, appcache, msPoll, beacons, whitelist, calls>>

\* ct.Sign(private_key) on a contract that may hold a signature already:
\* the nonce is what RAND_bytes leaves in m_nonce, signed whether CKey::Sign
\* succeeds, which it cannot without a key.
SignAgain(private_key, nonce, signed) ==
    LET r == Sign(ct, private_key, now, nonce, signed, DerLength)
    IN  /\ ncalls < MaxCalls
        /\ ncalls' = ncalls + 1
        /\ signed => private_key # EmptyPublicKey
        /\ ct' = r.contract
        /\ op' = "Sign"
        /\ arg' = DefaultContract
        /\ ret' = r.ok
        /\ UNCHANGED <<now, replayVars, appcache, msPoll, beacons, whitelist, calls>>

\* Contract::Type::Parse(arg.type)
ParseType ==
    /\ op = "Init"
    /\ op' = "Type::Parse"
    /\ ret' = TypeParse(arg.type)
    /\ UNCHANGED <<now, replayVars, handlerVars, ct, arg>>

\* ToString() on the Type that Parse returned
PrintType ==
    /\ op = "Type::Parse"
    /\ op' = "Type::ToString"
    /\ ret' = TypeToString(ret)
    /\ UNCHANGED <<now, replayVars, handlerVars, ct, arg>>

\* Contract::Action::Parse(arg.action)
ParseAction ==
    /\ op = "Init"
    /\ op' = "Action::Parse"
    /\ ret' = ActionParse(arg.action)
    /\ UNCHANGED <<now, replayVars, handlerVars, ct, arg>>

\* ToString() on the Action that Parse returned
PrintAction ==
    /\ op = "Action::Parse"
    /\ op' = "Action::ToString"
    /\ ret' = ActionToString(ret)
    /\ UNCHANGED <<now, replayVars, handlerVars, ct, arg>>

\* ct.Validate() and arg.Validate(), on two contract objects: the pair of
\* the values returned.
ValidatePair ==
    /\ op = "Init"
    /\ op' = "Validate2"
    /\ ret' = <<Validate(ct), Validate(arg)>>
    /\ ct' = AfterValidate(ct)
    /\ arg' = AfterValidate(arg)
    /\ UNCHANGED <<now, replayVars, handlerVars>>

NextReplay ==
    \/ Tick
    \/ \E c \in ReplayContracts : CheckReplay(c)
    \/ \E c \in ReplayContracts : TrackForReplay(c)

NextDispatch ==
    \/ \E c \in DispatchContracts : Apply(c)
    \/ \E c \in DispatchContracts : Revert(c)

NextContract ==
    \/ \E c \in NewContracts : Construct(c)
    \/ \E k \in PrivateKeys, n \in 0..MaxNonce, signed \in BOOLEAN :
          SignContract(k, n, signed)
    \/ ValidateContract

\* The replay guard under a clock that never decreases.
SpecReplay == Init /\ [][NextReplay]_vars

\* The dispatcher and its handlers.
SpecDispatch == Init /\ [][NextDispatch]_vars

\* A contract built by Contract's constructor from any field values around
\* the limits WellFormed() tests, and its checks.
InitEnvelope ==
    /\ now = 1
    /\ m_replay_pool = <<>>
    /\ tracked = {}
    /\ appcache = {}
    /\ msPoll = ""
    /\ beacons = {}
    /\ whitelist = {}
    /\ calls = <<>>
    /\ ncalls = 0
    /\ \E v \in (-1)..(CURRENT_VERSION + 1), t \in TypeVariants,
          a \in ActionVariants, k \in {"", "key"}, val \in {"", "value"},
          len \in SignatureLengths, pub \in {EmptyPublicKey, UserPublicKey},
          n \in 0..MaxNonce, ts \in TimeValues, tx \in (-1)..MaxTxTime :
            ct = Contract(v, t, a, k, val, ForeignSignature(len), pub, n, ts, tx)
    /\ op = "Init"
    /\ arg = DefaultContract
    /\ ret = FALSE

NextEnvelope == CheckWellFormed \/ ResolveKeys

SpecEnvelope == InitEnvelope /\ [][NextEnvelope]_vars

\* Two contract objects whose hash was not computed yet: ct with any fields,
\* arg a version-1 contract of type string "beacon" (the BEACON value, or
\* UNKNOWN with the literal) whose other fields take one of two sets of
\* values.
InitHashPair ==
    /\ now = 1
    /\ m_replay_pool = <<>>
    /\ tracked = {}
    /\ appcache = {}
    /\ msPoll = ""
    /\ beacons = {}
    /\ whitelist = {}
    /\ calls = <<>>
    /\ ncalls = 0
    /\ \E v \in 1..CURRENT_VERSION,
          t \in {Variant("BEACON"), VariantOther("beacon"), Variant("POLL")},
          a \in {Variant("ADD"), Variant("REMOVE")},
          k \in {"key", "other"}, len \in {0, DerLength},
          pub \in {EmptyPublicKey, UserPublicKey}, n \in {0, MaxNonce},
          ts \in {0, 1}, tx \in {0, MaxTxTime} :
            ct = Contract(v, t, a, k, "value", ForeignSignature(len), pub, n, ts, tx)
    /\ \E t \in {Variant("BEACON"), VariantOther("beacon")}, first \in BOOLEAN :
            arg = IF first
                  THEN Contract(1, t, Variant("ADD"), "key", "value",
                                EmptySignature, EmptyPublicKey, 0, 0, 0)
                  ELSE Contract(1, t, Variant("REMOVE"), "key", "value",
                                ForeignSignature(DerLength), UserPublicKey,
                                MaxNonce, 1, MaxTxTime)
    /\ op = "Init"
    /\ ret = FALSE

NextHashPair == GetHashPair

SpecHashPair == InitHashPair /\ [][NextHashPair]_vars

\* A contract object just built, with or without a signature and an embedded
\* key from the message it came in, of a type that needs the message key
\* (BEACON, to add) or no special key (SUPERBLOCK).
InitHash ==
    /\ now = MaxTime
    /\ m_replay_pool = <<>>
    /\ tracked = {}
    /\ appcache = {}
    /\ msPoll = ""
    /\ beacons = {}
    /\ whitelist = {}
    /\ calls = <<>>
    /\ ncalls = 0
    /\ \E v \in 1..CURRENT_VERSION,
          t \in {Variant("BEACON"), Variant("SUPERBLOCK")}, received \in BOOLEAN :
            ct = IF received
                 THEN Contract(v, t, Variant("ADD"), "key", "value",
                               ForeignSignature(DerLength), UserPublicKey, 0, 0, 1)
                 ELSE Contract(v, t, Variant("ADD"), "key", "value",
                               EmptySignature, EmptyPublicKey, 0, 0, 1)
    /\ op = "Construct"
    /\ arg = DefaultContract
    /\ ret = FALSE

NextHash ==
    \/ GetHashContract
    \/ \E k \in {"key", "other"}, a \in {Variant("ADD"), Variant("REMOVE")} :
          SetField(k, a)
    \/ \E k \in {MessagePublicKey, UserPublicKey, EmptyPublicKey},
          n \in {1, MaxNonce}, signed \in BOOLEAN :
          SignAgain(k, n, signed)

\* The hash cache of a contract whose fields are set between calls.
SpecHash == InitHash /\ [][NextHash]_vars

\* The variant codecs: arg holds the two strings to parse.
InitCodec ==
    /\ now = 1
    /\ m_replay_pool = <<>>
    /\ tracked = {}
    /\ appcache = {}
    /\ msPoll = ""
    /\ beacons = {}
    /\ whitelist = {}
    /\ calls = <<>>
    /\ ncalls = 0
    /\ ct = DefaultContract
    /\ op = "Init"
    /\ \E t \in TypeTokens, a \in ActionTokens : arg = [type |-> t, action |-> a]
    /\ ret = FALSE

NextCodec == ParseType \/ PrintType \/ ParseAction \/ PrintAction

SpecCodec == InitCodec /\ [][NextCodec]_vars

\* A legacy message of a transaction and the time of the transaction: the
\* empty message, and messages with any token as type and action, a key and
\* a value or none, and no signature, a signature that is too short, a viable
\* one, or text that is not a signature.
InitParse ==
    /\ now = 1
    /\ m_replay_pool = <<>>
    /\ tracked = {}
    /\ appcache = {}
    /\ msPoll = ""
    /\ beacons = {}
    /\ whitelist = {}
    /\ calls = <<>>
    /\ ncalls = 0
    /\ ct = DefaultContract
    /\ \E ts \in {0, MaxTxTime} :
         \/ arg = [message |-> EmptyMessage, timestamp |-> ts]
         \/ \E mt \in TypeTokens, ma \in ActionTokens, mk \in {"", "key"},
               mv \in {"", "value"},
               ms \in {"", "!", SignatureToString(ForeignSignature(63)),
                       SignatureToString(ForeignSignature(64))} :
                 arg = [message |-> Message(mt, mk, mv, ma, ms),
                        timestamp |-> ts]
    /\ op = "Message"
    /\ ret = FALSE

NextParse == ParseMessage \/ CheckWellFormed

SpecParse == InitParse /\ [][NextParse]_vars

\* Two contracts as received: ct as it was signed (with the master key, the
\* message key, or not signed), and arg with the same signature and with an
\* action and, or not, an embedded key, nonce and timestamp of its own.
InitValidatePair ==
    /\ now = 1
    /\ m_replay_pool = <<>>
    /\ tracked = {}
    /\ appcache = {}
    /\ msPoll = ""
    /\ beacons = {}
    /\ whitelist = {}
    /\ calls = <<>>
    /\ ncalls = 0
    /\ \E v \in 1..CURRENT_VERSION,
          t \in {Variant("PROJECT"), TypeParse("projectmapping"),
                  Variant("PROTOCOL"), Variant("SCRAPER"), Variant("BEACON")},
          k \in {"", "key"}, tx \in {0, MaxTxTime},
          signer \in {MasterPublicKey, MessagePublicKey, EmptyPublicKey},
          a1 \in {"ADD", "REMOVE"}, a2 \in {"ADD", "REMOVE"}, own \in BOOLEAN :
            LET built == Contract(v, t, Variant(a1), k, "value", EmptySignature,
                                  EmptyPublicKey, 0, 0, tx)
                signed == Sign(built, signer, now, 1, signer # EmptyPublicKey,
                               DerLength).contract
                received == [signed EXCEPT !.m_hash_cache = {}]
            IN  /\ ct = received
                /\ arg = IF own
                         THEN [received EXCEPT !.m_action = Variant(a2),
                                               !.m_public_key = UserPublicKey,
                                               !.m_nonce = MaxNonce,
                                               !.m_timestamp = MaxTime]
                         ELSE [received EXCEPT !.m_action = Variant(a2)]
    /\ op = "Init"
    /\ ret = FALSE

NextValidatePair == ValidatePair

SpecValidatePair == InitValidatePair /\ [][NextValidatePair]_vars

\* A contract object that is built, signed and validated, at any value of
\* the clock.
InitContract ==
    \E t \in 1..MaxTime :
        /\ now = t
        /\ m_replay_pool = <<>>
        /\ tracked = {}
        /\ appcache = {}
        /\ msPoll = ""
        /\ beacons = {}
        /\ whitelist = {}
        /\ calls = <<>>
        /\ ncalls = 0
        /\ ct = DefaultContract
        /\ op = "Init"
        /\ arg = DefaultContract
        /\ ret = FALSE

SpecContract == InitContract /\ [][NextContract]_vars

\* Every operation.  The replay pool, the handlers and a contract object
\* share no state, so the properties of each are checked under the
\* specification of its own operations.
Next ==
    \/ NextReplay \/ NextDispatch \/ NextContract \/ NextEnvelope
    \/ NextHashPair \/ NextHash \/ NextCodec
    \/ NextValidatePair \/ NextParse

Spec == Init /\ [][Next]_vars

---------------------------------------------------------------------------
(* Properties of the replay guard, under SpecReplay.                       *)

\* C1: with a clock that never decreases, once TrackForReplay(c) has been
\* called for a contract c, every later CheckReplay(c) returns false,
\* whatever was checked and tracked and however much time passed in between.
C1_TrackedContractIsRejected ==
    (op = "CheckReplay" /\ arg \in tracked) => ret = FALSE

\* C1 happens: a tracked contract is rejected after its pool entry is gone.
C1_Witness ==
    /\ op = "CheckReplay"
    /\ arg \in tracked
    /\ ret = FALSE
    /\ \A i \in 1..Len(m_replay_pool) : m_replay_pool[i].m_hash # GetHash(arg)

\* C2: CheckReplay(c) returns false for every contract c whose signing
\* timestamp is less than now - RETENTION_PERIOD, whatever the pool holds.
C2_StaleContractIsRejected ==
    (op = "CheckReplay" /\ arg.m_timestamp < now - REPLAY_RETENTION_PERIOD)
        => ret = FALSE

\* C2 happens: a stale contract that was never tracked is rejected.
C2_Witness ==
    /\ op = "CheckReplay"
    /\ arg.m_timestamp < now - REPLAY_RETENTION_PERIOD
    /\ arg.m_version > 1
    /\ arg \notin tracked
    /\ m_replay_pool # <<>>
    /\ ret = FALSE

---------------------------------------------------------------------------
(* Properties of signing and validation, under SpecContract.               *)

\* C3: Validate() returns false for every contract whose signature was made
\* by a private key other than the one of the key its (type, action)
\* resolves to: the master key for PROJECT, PROTOCOL, SCRAPER and for REMOVE
\* on BEACON, POLL, VOTE; the message key for ADD on BEACON, POLL, VOTE; the
\* embedded key otherwise.
C3_WrongKeyIsRejected ==
    LET type == ct.m_type.value
        action == ct.m_action.value
        required ==
            IF type \in {"PROJECT", "PROTOCOL", "SCRAPER"} THEN MasterPublicKey
            ELSE IF type \in {"BEACON", "POLL", "VOTE"} /\ action = "REMOVE"
                 THEN MasterPublicKey
            ELSE IF type \in {"BEACON", "POLL", "VOTE"} /\ action = "ADD"
                 THEN MessagePublicKey
            ELSE ct.m_public_key
    IN  (op = "Validate" /\ ct.m_signature.signer # required) => ret = FALSE

\* C3 happens: a contract that is well-formed and needs the master key is
\* rejected with the signature of the message key.
C3_Witness ==
    /\ op = "Validate"
    /\ ct.m_type.value = "PROJECT"
    /\ ct.m_action.value = "ADD"
    /\ WellFormed(ct)
    /\ ct.m_signature.signer = MessagePublicKey
    /\ ret = FALSE

\* C4: a contract that requires the master key, with action ADD or REMOVE,
\* a key and a value, tx_timestamp > 0 and a version in 1..CURRENT_VERSION
\* passes Validate() once Sign succeeded with the master private key,
\* whatever timestamp and nonce Sign stamped on it.
C4_MasterSignedValidates ==
    ( /\ op = "Validate"
      /\ RequiresMasterKey(ct)
      /\ ct.m_action.value \in {"ADD", "REMOVE"}
      /\ ct.m_key # ""
      /\ ct.m_value # ""
      /\ ct.m_tx_timestamp > 0
      /\ ct.m_version \in 1..CURRENT_VERSION
      /\ ct.m_signature.signer = MasterPublicKey )
        => ret = TRUE

---------------------------------------------------------------------------
(* Properties of the dispatcher, under SpecDispatch.                       *)

\* C5: Apply(c) with action ADD calls Add(c) exactly once, on the handler of
\* c's type (BEACON: the beacon directory, PROJECT: the whitelist, POLL,
\* PROTOCOL, SCRAPER, VOTE: the legacy handler) and calls nothing else; with
\* action REMOVE it calls Delete(c) exactly once, on that handler only.
C5_ApplyCallsOneHandlerOnce ==
    LET type == arg.m_type.value
        handler == IF type = "BEACON" THEN "beacon"
                   ELSE IF type = "PROJECT" THEN "whitelist"
                   ELSE "appcache"
    IN  ( /\ op = "Apply"
          /\ type \in {"BEACON", "POLL", "PROJECT", "PROTOCOL", "SCRAPER", "VOTE"}
          /\ arg.m_action.value \in {"ADD", "REMOVE"} )
            => calls = << [handler |-> handler,
                           fn |-> IF arg.m_action.value = "ADD"
                                  THEN "Add" ELSE "Delete",
                           contract |-> arg] >>

\* C5 happens: Apply of a BEACON ADD contract called Add on the beacon
\* directory.
C5_Witness ==
    /\ op = "Apply"
    /\ arg.m_type.value = "BEACON"
    /\ arg.m_action.value = "ADD"
    /\ Len(calls) = 1
    /\ calls[1].handler = "beacon"
    /\ calls[1].fn = "Add"

\* C6: Revert(c) on a handler that does not override Revert does the
\* inverse of c's action on the handler of c's type: Delete(c) exactly once
\* for ADD, Add(c) exactly once for REMOVE, with the same contract.
C6_RevertCallsTheInverse ==
    LET type == arg.m_type.value
        handler == IF type = "BEACON" THEN "beacon"
                   ELSE IF type = "PROJECT" THEN "whitelist"
                   ELSE "appcache"
        made == SelectSeq(calls, LAMBDA x : x.fn # "Revert")
    IN  ( /\ op = "Revert"
          /\ type \in {"BEACON", "POLL", "PROJECT", "PROTOCOL", "SCRAPER", "VOTE"}
          /\ arg.m_action.value \in {"ADD", "REMOVE"} )
            => made = << [handler |-> handler,
                          fn |-> IF arg.m_action.value = "ADD"
                                 THEN "Delete" ELSE "Add",
                          contract |-> arg] >>

\* C6 happens: Revert of a POLL REMOVE contract called Add on the legacy
\* handler.
C6_Witness ==
    /\ op = "Revert"
    /\ arg.m_type.value = "POLL"
    /\ arg.m_action.value = "REMOVE"
    /\ Len(calls) = 2
    /\ calls[2].handler = "appcache"
    /\ calls[2].fn = "Add"
    /\ calls[2].contract = arg

\* C7: Revert undoes Apply: for every contract c of the legacy handler (POLL,
\* PROTOCOL, SCRAPER, VOTE) with action ADD or REMOVE and every content of
\* the store, Apply(c) and then Revert(c) leave the store and the current
\* poll as they were before Apply(c).
C7_RevertUndoesApply ==
    \A c \in DispatchContracts :
        ( /\ c.m_type.value \in {"POLL", "PROTOCOL", "SCRAPER", "VOTE"}
          /\ c.m_action.value \in {"ADD", "REMOVE"} )
            => LET w == DispatcherRevert(DispatcherApply(World, c), c)
               IN  w.appcache = appcache /\ w.msPoll = msPoll

\* C8: for a contract whose type value is not BEACON, POLL, PROJECT,
\* PROTOCOL, SCRAPER or VOTE, Apply and Revert, with any action, leave the
\* beacon directory, the whitelist, the legacy store and the current poll
\* unchanged.
C8_UnknownTypeChangesNothing ==
    [][ ( /\ op' \in {"Apply", "Revert"}
          /\ arg'.m_type.value \notin
                {"BEACON", "POLL", "PROJECT", "PROTOCOL", "SCRAPER", "VOTE"} )
            => UNCHANGED <<appcache, msPoll, beacons, whitelist>> ]_vars

\* C8 happens: a SUPERBLOCK contract was applied to handlers that hold
\* entries.
C8_Witness ==
    /\ op = "Apply"
    /\ arg.m_type.value = "SUPERBLOCK"
    /\ arg.m_action.value = "ADD"
    /\ appcache # {}
    /\ beacons # {}

\* C9: for a contract whose action is neither ADD nor REMOVE, Apply calls no
\* handler operation, Revert through the default Revert calls neither Add
\* nor Delete, and both leave the state of every handler unchanged.
C9_UnknownActionChangesNothing ==
    [][ ( /\ op' \in {"Apply", "Revert"}
          /\ arg'.m_action.value \notin {"ADD", "REMOVE"} )
            => /\ UNCHANGED <<appcache, msPoll, beacons, whitelist>>
               /\ op' = "Apply" => calls' = <<>>
               /\ \A i \in 1..Len(calls') : calls'[i].fn \notin {"Add", "Delete"}
      ]_vars

\* C9 happens: a POLL contract with an unknown action was reverted on a
\* store that holds entries.
C9_Witness ==
    /\ op = "Revert"
    /\ arg.m_type.value = "POLL"
    /\ arg.m_action.value = "UNKNOWN"
    /\ appcache # {}
    /\ Len(calls) = 1
    /\ calls[1].fn = "Revert"

---------------------------------------------------------------------------
(* Properties of the envelope, under SpecEnvelope.                         *)

\* C10: WellFormed() returns true exactly when 1 <= version <=
\* CURRENT_VERSION, the type value and the action value are not UNKNOWN, key
\* and value are not empty, the signature has 64 to 73 bytes, the contract
\* requires a special key or its embedded public key is viable,
\* tx_timestamp > 0, and version = 1 or (timestamp > 0 and nonce # 0).
C10_WellFormedExactly ==
    op = "WellFormed" =>
        ( ret <=>
            /\ 1 <= ct.m_version /\ ct.m_version <= CURRENT_VERSION
            /\ ct.m_type.value # "UNKNOWN"
            /\ ct.m_action.value # "UNKNOWN"
            /\ ct.m_key # "" /\ ct.m_value # ""
            /\ ct.m_signature.len \in 64..73
            /\ (RequiresSpecialKey(ct) \/ ct.m_public_key # EmptyPublicKey)
            /\ ct.m_tx_timestamp > 0
            /\ (ct.m_version = 1 \/ (ct.m_timestamp > 0 /\ ct.m_nonce # 0)) )

\* C10 happens: WellFormed() accepted a contract of a version above 1.
C10_Witness ==
    /\ op = "WellFormed"
    /\ ct.m_version > 1
    /\ ~RequiresSpecialKey(ct)
    /\ ret = TRUE

\* C11: for every (type, action): RequiresMasterKey() is true exactly for
\* REMOVE on BEACON, POLL, VOTE and for any action on PROJECT, PROTOCOL,
\* SCRAPER; RequiresMessageKey() is true exactly for ADD on BEACON, POLL,
\* VOTE; the two are never both true; ResolvePublicKey() returns the message
\* key when the message key is required, the master key when the master key
\* is required, and the embedded public key otherwise.
C11_KeyTable ==
    op = "ResolvePublicKey" =>
        LET type == ct.m_type.value
            action == ct.m_action.value
        IN  /\ ret.master <=>
                   \/ type \in {"BEACON", "POLL", "VOTE"} /\ action = "REMOVE"
                   \/ type \in {"PROJECT", "PROTOCOL", "SCRAPER"}
            /\ ret.message <=>
                   type \in {"BEACON", "POLL", "VOTE"} /\ action = "ADD"
            /\ ~(ret.master /\ ret.message)
            /\ ret.special <=> (ret.master \/ ret.message)
            /\ ret.key = IF ret.message THEN MessagePublicKey
                         ELSE IF ret.master THEN MasterPublicKey
                         ELSE ct.m_public_key

\* C11 happens: a VOTE contract with an unrecognised action needs no special
\* key and resolves to its embedded key.
C11_Witness ==
    /\ op = "ResolvePublicKey"
    /\ ct.m_type.value = "VOTE"
    /\ ct.m_action.other # {}
    /\ ct.m_public_key = UserPublicKey
    /\ ret.key = UserPublicKey
    /\ ~ret.special

---------------------------------------------------------------------------
(* Properties of the hash, under SpecHashPair.                             *)

\* C12: for any two version-1 contracts with equal type string, key and
\* value, GetHash() computed from an empty cache returns the same value,
\* whatever their action, signature, embedded public key, nonce, signing
\* timestamp and tx_timestamp are.
C12_LegacyHashCoversTypeKeyValue ==
    ( /\ op = "GetHash2"
      /\ ct.m_version = 1 /\ arg.m_version = 1
      /\ TypeToString(ct.m_type) = TypeToString(arg.m_type)
      /\ ct.m_key = arg.m_key
      /\ ct.m_value = arg.m_value )
        => ret[1] = ret[2]

\* C12 happens: two version-1 contracts that agree on type string, key and
\* value only (even the type value differs) got the same hash.
C12_Witness ==
    /\ op = "GetHash2"
    /\ ct.m_version = 1 /\ arg.m_version = 1
    /\ TypeToString(ct.m_type) = TypeToString(arg.m_type)
    /\ ct.m_key = arg.m_key /\ ct.m_value = arg.m_value
    /\ ct.m_type # arg.m_type
    /\ ct.m_action # arg.m_action
    /\ ct.m_signature # arg.m_signature
    /\ ct.m_public_key # arg.m_public_key
    /\ ct.m_nonce # arg.m_nonce
    /\ ct.m_timestamp # arg.m_timestamp
    /\ ct.m_tx_timestamp # arg.m_tx_timestamp
    /\ ret[1] = ret[2]

---------------------------------------------------------------------------
(* Properties of the hash cache and of Sign, under SpecHash.               *)

\* C13: GetHash() is memoized: once GetHash() has returned a value, every
\* later GetHash() on that contract returns the same value until Sign is
\* called, even if fields were set in between; Sign clears the cache, so the
\* hash it signs is computed from the fields as they are when it signs.
C13_HashIsMemoizedUntilSign ==
    [][ /\ (op \in {"GetHash", "GetHash, SetField"} /\ op' = "GetHash")
            => ret' = ret
        /\ op' = "Sign"
            => LET signing == [ct' EXCEPT !.m_hash_cache = {},
                                          !.m_public_key = ct.m_public_key]
               IN  /\ ct'.m_hash_cache = {GetHash(signing)}
                   /\ ret' = TRUE => ct'.m_signature.msg = {GetHash(signing)}
      ]_vars

\* C13 happens: GetHash() returned the hash of the fields as they were
\* before they were set, not of the fields as they are.
C13_Witness ==
    /\ op = "GetHash"
    /\ ct.m_key = "other"
    /\ ct.m_hash_cache = {ret}
    /\ ret # GetHash([ct EXCEPT !.m_hash_cache = {}])
    /\ ret = GetHash([ct EXCEPT !.m_hash_cache = {}, !.m_key = "key"])

\* C20: when the private key fails to sign, Sign returns false and leaves
\* the contract unsigned: the signature and the embedded public key hold the
\* values they had before the call.
C20_FailedSignKeepsSignature ==
    [][ (op' = "Sign" /\ ret' = FALSE)
            => /\ ct'.m_signature = ct.m_signature
               /\ ct'.m_public_key = ct.m_public_key ]_vars

\* C20 happens: a failed Sign stamped a new time and nonce on a contract of
\* a version above 1 that holds a signature made by an earlier Sign.
C20_Witness ==
    /\ op = "Sign"
    /\ ret = FALSE
    /\ ct.m_version > 1
    /\ ct.m_signature.signer = UserPublicKey
    /\ ct.m_public_key = UserPublicKey
    /\ ct.m_signature.msg # ct.m_hash_cache

---------------------------------------------------------------------------
(* Properties of the variant codecs, under SpecCodec.                      *)

\* C14: for every string s, Type::Parse(s).ToString() = s and
\* Action::Parse(s).ToString() = s; each known token parses to its variant
\* ("A" to ADD, "D" to REMOVE, "beacon" to BEACON, ...), "projectmapping"
\* parses to PROJECT and still prints "projectmapping", and every other
\* token that is not empty parses to an UNKNOWN variant that prints the
\* token as it is.
C14_CodecRoundTrip ==
    LET KnownTypes ==
            [beacon |-> "BEACON", vote |-> "VOTE", poll |-> "POLL",
             project |-> "PROJECT", scraper |-> "SCRAPER",
             protocol |-> "PROTOCOL", superblock |-> "SUPERBLOCK"]
        KnownActions == [A |-> "ADD", D |-> "REMOVE"]
    IN  /\ op = "Type::ToString" => ret = arg.type
        /\ op = "Action::ToString" => ret = arg.action
        /\ op = "Type::Parse" =>
              IF arg.type \in DOMAIN KnownTypes
              THEN ret = [value |-> KnownTypes[arg.type], other |-> {}]
              ELSE IF arg.type = "projectmapping"
              THEN ret = [value |-> "PROJECT", other |-> {"projectmapping"}]
              ELSE IF arg.type # ""
              THEN ret = [value |-> "UNKNOWN", other |-> {arg.type}]
              ELSE ret.value = "UNKNOWN"
        /\ op = "Action::Parse" =>
              IF arg.action \in DOMAIN KnownActions
              THEN ret = [value |-> KnownActions[arg.action], other |-> {}]
              ELSE IF arg.action # ""
              THEN ret = [value |-> "UNKNOWN", other |-> {arg.action}]
              ELSE ret.value = "UNKNOWN"

\* C14 happens: the legacy alias was parsed to PROJECT and printed as it was
\* written.
C14_Witness ==
    /\ op = "Type::ToString"
    /\ arg.type = "projectmapping"
    /\ TypeParse(arg.type).value = "PROJECT"
    /\ ret = "projectmapping"

---------------------------------------------------------------------------
(* Further properties of the replay guard, under SpecReplay.               *)

\* C15: CheckReplay never records the contract it checks: no CheckReplay
\* call adds an entry to the pool, so an entry for a hash is in the pool only
\* if TrackForReplay was called for a contract with that hash, and a contract
\* that CheckReplay accepted is accepted again by a CheckReplay that follows
\* immediately, at the same clock value.
C15_CheckReplayRecordsNothing ==
    /\ [] (\A i \in 1..Len(m_replay_pool) :
              \E c \in tracked : GetHash(c) = m_replay_pool[i].m_hash)
    /\ [][ /\ op' = "CheckReplay"
                => /\ Len(m_replay_pool') <= Len(m_replay_pool)
                   /\ \A i \in 1..Len(m_replay_pool') :
                         \E j \in 1..Len(m_replay_pool) :
                            m_replay_pool'[i] = m_replay_pool[j]
           /\ ( /\ op = "CheckReplay" /\ ret = TRUE
                /\ op' = "CheckReplay" /\ arg' = arg /\ now' = now )
                => ret' = TRUE
         ]_vars

\* C15 happens: a contract that was never tracked was accepted, and the
\* pool, which holds other entries, has none for its hash.
C15_Witness ==
    /\ op = "CheckReplay"
    /\ ret = TRUE
    /\ arg \notin tracked
    /\ m_replay_pool # <<>>
    /\ \A i \in 1..Len(m_replay_pool) : m_replay_pool[i].m_hash # GetHash(arg)

\* C16, as stated: after any CheckReplay call, whether it accepted or
\* rejected the contract, the pool holds no entry whose timestamp is older
\* than now - RETENTION_PERIOD.
C16_NoStaleEntryAfterAnyCheck ==
    op = "CheckReplay" =>
        \A i \in 1..Len(m_replay_pool) :
            m_replay_pool[i].m_timestamp >= now - REPLAY_RETENTION_PERIOD

\* C16, amended: after a CheckReplay call that accepted the contract, the
\* pool holds no entry whose timestamp is older than now - RETENTION_PERIOD
\* (a call that rejects returns before the scan, or in the middle of it, and
\* may leave such entries).
C16_NoStaleEntryAfterAcceptedCheck ==
    (op = "CheckReplay" /\ ret = TRUE) =>
        \A i \in 1..Len(m_replay_pool) :
            m_replay_pool[i].m_timestamp >= now - REPLAY_RETENTION_PERIOD

\* C16 happens: an accepted check left only the entry that is not stale, of
\* a pool that held two entries.
C16_Witness ==
    /\ op = "CheckReplay"
    /\ ret = TRUE
    /\ Cardinality(tracked) = 2
    /\ Len(m_replay_pool) = 1
    /\ m_replay_pool[1].m_timestamp >= now - REPLAY_RETENTION_PERIOD

\* C17: version-1 contracts are never accepted by the replay check: for
\* every contract Contract::Parse returns, CheckReplay returns false whenever
\* now - RETENTION_PERIOD > 0, for every content of the pool.
C17_ParsedContractIsRejected ==
    ( /\ op = "CheckReplay"
      /\ arg \in ParsedContracts
      /\ now - REPLAY_RETENTION_PERIOD > 0 )
        => ret = FALSE

\* C17 happens: a version-1 contract that was never tracked is rejected on a
\* pool that holds entries.
C17_Witness ==
    /\ op = "CheckReplay"
    /\ arg \in ParsedContracts
    /\ arg.m_version = 1
    /\ now - REPLAY_RETENTION_PERIOD > 0
    /\ arg \notin tracked
    /\ m_replay_pool # <<>>
    /\ ret = FALSE

\* C18: when CheckReplay returns true, the pool afterwards is exactly the
\* entries it held before whose timestamp is >= now - RETENTION_PERIOD, in
\* their order: every stale entry was evicted, no other entry was removed or
\* moved.
C18_AcceptedCheckKeepsFreshEntries ==
    [][ (op' = "CheckReplay" /\ ret' = TRUE)
            => m_replay_pool' =
                  SelectSeq(m_replay_pool, LAMBDA e :
                      e.m_timestamp >= now - REPLAY_RETENTION_PERIOD) ]_vars

\* C18 happens: an accepted check kept two entries, the first of them just
\* as old as the limit.
C18_Witness ==
    /\ op = "CheckReplay"
    /\ ret = TRUE
    /\ Len(m_replay_pool) = 2
    /\ m_replay_pool[1].m_timestamp = now - REPLAY_RETENTION_PERIOD
    /\ m_replay_pool[2].m_timestamp > m_replay_pool[1].m_timestamp

\* C19: TrackForReplay(c) appends exactly one entry (c.timestamp,
\* c.GetHash()) at the end of the pool and leaves the entries before it as
\* they were, also when an entry with the same hash is in the pool and when
\* c's timestamp is older than the retention window.
C19_TrackForReplayAppends ==
    [][ op' = "TrackForReplay"
            => m_replay_pool' =
                  Append(m_replay_pool,
                         [m_timestamp |-> arg'.m_timestamp,
                          m_hash |-> GetHash(arg')]) ]_vars

\* C19 happens: a contract already too old was tracked a second time, and
\* the pool holds two entries for it.
C19_Witness ==
    /\ op = "TrackForReplay"
    /\ arg.m_version > 1
    /\ arg.m_timestamp < now - REPLAY_RETENTION_PERIOD
    /\ Len(m_replay_pool) = 2
    /\ m_replay_pool[1] = m_replay_pool[2]
    /\ m_replay_pool[2].m_hash = GetHash(arg)

\* C21: on a successful Sign: for a version above 1 the signing timestamp is
\* set to the adjusted time and a nonce is drawn before the hash is computed,
\* for version 1 timestamp and nonce are left as they were; the signature is
\* replaced by a signature over that hash; the embedded public key is set to
\* the signer's public key exactly when the contract requires no special
\* key, and is left as it was otherwise.
C21_SuccessfulSign ==
    [][ (op' = "Sign" /\ ret' = TRUE)
            => LET signing == [ct' EXCEPT !.m_hash_cache = {},
                                          !.m_public_key = ct.m_public_key]
               IN  /\ ct.m_version > 1 => ct'.m_timestamp = now
                   /\ ct.m_version <= 1 => /\ ct'.m_timestamp = ct.m_timestamp
                                           /\ ct'.m_nonce = ct.m_nonce
                   /\ ct'.m_signature.signer # ""
                   /\ ct'.m_signature.msg = {GetHash(signing)}
                   /\ ct'.m_public_key =
                         IF RequiresSpecialKey(ct) THEN ct.m_public_key
                         ELSE GetPubKey(ct'.m_signature.signer)
                   /\ \A f \in {"m_version", "m_type", "m_action", "m_key",
                                 "m_value", "m_tx_timestamp"} : ct'[f] = ct[f]
      ]_vars

\* C21 happens: Sign with the message key succeeded on a contract of a
\* version above 1 that needs no special key: it carries the time, the nonce
\* drawn and the signer's key in place of the one it held.
C21_Witness ==
    /\ op = "Sign"
    /\ ret = TRUE
    /\ ct.m_version > 1
    /\ ~RequiresSpecialKey(ct)
    /\ ct.m_timestamp = now
    /\ ct.m_nonce = MaxNonce
    /\ ct.m_signature.signer = MessagePublicKey
    /\ ct.m_public_key = MessagePublicKey

---------------------------------------------------------------------------
(* Properties of the legacy handler, under SpecDispatch.                   *)

\* C22: the legacy handler's Add(c) sets the store entry at (section of c's
\* type string, c.key) to (c.value, c.tx_timestamp), in place of any entry
\* that was there, and its Delete(c) removes the entry at (section, c.key);
\* the current poll is modified only by an Add of a POLL contract, which
\* sets it to the contract's ToString(), and is left as it was by every
\* Delete and by Add of PROTOCOL, SCRAPER and VOTE contracts.
C22_LegacyHandlerEffects ==
    [][ LET legacy == /\ op' \in {"Apply", "Revert"}
                      /\ calls' # <<>>
                      /\ calls'[Len(calls')].handler = "appcache"
                      /\ calls'[Len(calls')].fn \in {"Add", "Delete"}
            fn == calls'[Len(calls')].fn
            c == calls'[Len(calls')].contract
            section == StringToSection(TypeToString(c.m_type))
            others == {e \in appcache : ~(e.section = section /\ e.key = c.m_key)}
        IN  /\ (legacy /\ fn = "Add")
                => /\ appcache' = others \cup
                         {[section |-> section, key |-> c.m_key,
                           value |-> c.m_value, timestamp |-> c.m_tx_timestamp]}
                   /\ msPoll' = IF c.m_type.value = "POLL"
                                THEN ContractToString(c) ELSE msPoll
            /\ (legacy /\ fn = "Delete")
                => /\ appcache' = others
                   /\ msPoll' = msPoll
            /\ msPoll' # msPoll
                => legacy /\ fn = "Add" /\ c.m_type.value = "POLL"
      ]_vars

\* C22 happens: Add of a VOTE contract wrote its entry next to another one
\* and left the current poll, set by an earlier POLL contract, as it was.
C22_Witness ==
    /\ op = "Apply"
    /\ arg.m_type.value = "VOTE"
    /\ arg.m_action.value = "ADD"
    /\ calls = <<Call("appcache", "Add", arg)>>
    /\ [section |-> "Section::VOTE", key |-> arg.m_key,
        value |-> arg.m_value, timestamp |-> arg.m_tx_timestamp] \in appcache
    /\ Cardinality(appcache) = 2
    /\ msPoll # ""
    /\ msPoll # ContractToString(arg)

---------------------------------------------------------------------------
(* Properties of validation on two contracts, under SpecValidatePair.      *)

\* C23: for version-1 contracts of type PROJECT, PROTOCOL or SCRAPER,
\* Validate() gives the same result for action ADD and for action REMOVE
\* when type string, key, value, signature and tx_timestamp are equal: a
\* signature accepted for one action is accepted for the other.
C23_LegacyActionIsNotSigned ==
    ( /\ op = "Validate2"
      /\ ct.m_version = 1 /\ arg.m_version = 1
      /\ ct.m_type.value \in {"PROJECT", "PROTOCOL", "SCRAPER"}
      /\ arg.m_type.value \in {"PROJECT", "PROTOCOL", "SCRAPER"}
      /\ ct.m_action.value \in {"ADD", "REMOVE"}
      /\ arg.m_action.value \in {"ADD", "REMOVE"}
      /\ TypeToString(ct.m_type) = TypeToString(arg.m_type)
      /\ ct.m_key = arg.m_key
      /\ ct.m_value = arg.m_value
      /\ ct.m_signature = arg.m_signature
      /\ ct.m_tx_timestamp = arg.m_tx_timestamp )
        => ret[1] = ret[2]

\* C23 happens: the master key's signature made for adding a project is
\* accepted on the contract that removes it.
C23_Witness ==
    /\ op = "Validate2"
    /\ ct.m_version = 1 /\ arg.m_version = 1
    /\ ct.m_type.value = "PROJECT" /\ arg.m_type = ct.m_type
    /\ ct.m_action.value = "ADD"
    /\ arg.m_action.value = "REMOVE"
    /\ ct.m_signature = arg.m_signature
    /\ ct.m_signature.signer = MasterPublicKey
    /\ arg.m_public_key # ct.m_public_key
    /\ ret = <<TRUE, TRUE>>

---------------------------------------------------------------------------
(* Properties of parsed legacy contracts, under SpecParse.                 *)

\* C24: Contract::Parse always leaves the embedded public key empty, so
\* every contract it returns that is WellFormed() requires a special key; a
\* parsed contract of type SUPERBLOCK or of an unrecognised type is never
\* well-formed, and a contract parsed from an empty message is never
\* well-formed.
C24_ParsedNeedsSpecialKey ==
    /\ op \in {"Parse", "WellFormed"} =>
          /\ ct = Parse(arg.message, arg.timestamp)
          /\ ct.m_public_key = EmptyPublicKey
    /\ op = "WellFormed" =>
          /\ ret => RequiresSpecialKey(ct)
          /\ ct.m_type.value \in {"SUPERBLOCK", "UNKNOWN"} => ~ret
          /\ arg.message.empty => ~ret

\* C24 happens: a contract parsed from a message is well-formed, with no
\* embedded key.
C24_Witness ==
    /\ op = "WellFormed"
    /\ ~arg.message.empty
    /\ ct = Parse(arg.message, arg.timestamp)
    /\ ret
    /\ ct.m_type.value = "BEACON"
    /\ ct.m_action.value = "REMOVE"
    /\ ct.m_public_key = EmptyPublicKey

=============================================================================
